---- MODULE Spec2Model ----
(***************************************************************************)
(* Model of CronjobService (Go source embedded in                          *)
(* client_and_server_config.ts, lines 66-764): the job registry that keeps *)
(* the persisted cronjob table consistent with the entry table of the      *)
(* process-wide scheduler (global.Cron).                                   *)
(*                                                                         *)
(* Strings are sequences of tokens.  A trigger spec is a sequence whose    *)
(* tokens are whole trigger expressions or the separator ",", so that      *)
(* strings.Split is computed, not assumed.  The stored EntryIDs string is  *)
(* the sequence of the joined ids; the empty string is the empty sequence. *)
(***************************************************************************)
EXTENDS Integers, Sequences, FiniteSets, TLC

\* ---- bounds --------------------------------------------------------------
MaxJobs  == 2   \* rows ever inserted into the cronjob table
MaxEntry == 4   \* entry ids ever issued by the scheduler
MaxRuns  == 1   \* executions of HandleJob
MaxBatch == 2   \* ids in one Delete request
MaxClock == 125 \* ticks the clock advances
MaxFirings == 3 \* executions of a job whose backups are counted
MaxKeep  == 3   \* largest retainCopies of a request
MaxSeries == 5  \* successive firings of one job
MaxCallers == 2 \* callers whose calls overlap

\* ---- vocabulary ----------------------------------------------------------
StatusEnable  == "Enable"
StatusDisable == "Disable"
StatusPending == "Pending"
Statuses == {StatusEnable, StatusDisable, StatusPending}

Local  == "LOCAL"
Remote == "S3"
Gone   == "OSS-old"   \* a backup account name no local account has
KnownAccounts == {Local, Remote}
NoAccount == ""       \* DownloadAccountID 0

\* the source selector of a database job (DBName): "all" or the joined ids
All      == <<"all">>
ShopDB   == "shop"    \* a database name found locally, under id ShopDBId
GhostDB  == "ghost"   \* a database name not found locally
ShopDBId == "7"
DroppedDBId == "9"    \* an id no local database has

Comma    == ","
CronSeg  == "*/5 * * * *"
EverySeg == "@every 30s"
BadSeg   == "every day"

JobIds == 1..MaxJobs
Names  == {"nightly-db", "rotate"}
Types  == {"database", "shell"}
CutWebsiteLog == "cutWebsiteLog"
LogsName == "site-logs"   \* the name of the job of type cutWebsiteLog
Specs  == {<<CronSeg>>, <<CronSeg, Comma, EverySeg>>, <<CronSeg, Comma, BadSeg>>}
AlertCounts == {0, 3}

\* error values returned by the handlers
Nil               == "nil"
ErrRecordExist    == "ErrRecordExist"
ErrRecordNotFound == "ErrRecordNotFound"
ErrFindCronjob    == "find cronjob in db failed"
ErrParse          == "cron: bad spec"
ErrDB             == "db error"
ErrAlert          == "alert error"
ErrAtoi           == "strconv.Atoi: invalid syntax"
ErrLocalDir       == "load local backup dir failed"

\* outcome of an execution, as its record stores it
Success == "Success"
Failed  == "Failed"

VARIABLES
    jobs,       \* cronjob table: [id -> row], DOMAIN jobs is the set of stored ids
    nextJobID,  \* next auto-increment id of the cronjob table
    entries,    \* scheduler entry table: set of [id, job, seg]
    nextEntry,  \* last entry id issued by the scheduler
    alerts,     \* alert table: set of [type, project, count]
    records,    \* execution records: set of [id, job, status]
    logs,       \* record ids whose log file exists on disk
    backups,    \* backup records: set of [id, cron, account]
    artifacts,  \* backup record ids whose artifact exists on its account
    runs,       \* executions of HandleJob so far
    notified,   \* outcomes handed to the alert service: set of [job, run, status]
    inflight,   \* executions of HandleJob that have begun and not returned
    last,       \* the most recent call: its name, its job id and the error returned
    reply,      \* what the most recent call returned beside the error, if it
                \* was Export or LoadRecordLog
    workload,   \* the kind of requests this run of the service receives
    clock,      \* time.Now(), in ticks
    preview,    \* the most recent call of LoadNextHandle: its text, the time
                \* of the call and what it returned
    calls       \* the Update and UpdateStatus calls that proceed step by step:
                \* for each caller, how far its call has got

vars == <<jobs, nextJobID, entries, nextEntry, alerts, records, logs, backups,
          artifacts, runs, notified, inflight, last, reply, workload, clock,
          preview, calls>>

\* The part of the state the handlers read and write, as one value.
World ==
    [jobs |-> jobs, nextJobID |-> nextJobID, entries |-> entries,
     nextEntry |-> nextEntry, alerts |-> alerts, records |-> records,
     logs |-> logs, backups |-> backups, artifacts |-> artifacts, runs |-> runs,
     notified |-> notified]

\* ---- strings -------------------------------------------------------------
\* strings.Split(s, ","): the pieces between separators; Split("") = [""].
RECURSIVE Split(_)
Split(s) ==
    IF \A i \in 1..Len(s) : s[i] # Comma
    THEN <<s>>
    ELSE LET i == CHOOSE k \in 1..Len(s) :
                    s[k] = Comma /\ \A j \in 1..(k - 1) : s[j] # Comma
         IN  <<SubSeq(s, 1, i - 1)>> \o Split(SubSeq(s, i + 1, Len(s)))

\* Variant of SplitAtoi for which the empty string yields the id 1.
SplitAtoiYieldsOne(entryIDs) ==
    IF Len(entryIDs) = 0 THEN <<1>> ELSE entryIDs
\* strings.Split(EntryIDs, ",") followed by strconv.Atoi with its error
\* dropped: the empty string yields the single id 0.
SplitAtoi(entryIDs) ==
    IF Len(entryIDs) = 0 THEN <<0>> ELSE entryIDs

Range(s) == {s[i] : i \in 1..Len(s)}

\* ---- scheduler (global.Cron) ----------------------------------------------
\* The scheduler's parser accepts a piece iff it is one whole trigger
\* expression; an empty piece or any other text is an error.
ParsesOK(piece) == piece \in {<<CronSeg>>, <<EverySeg>>}

\* Variant of RemoveEntryIDs that empties the scheduler's table.
RemoveEntryIDsClearsAll(w, entryIDs) == [w EXCEPT !.entries = {}]
\* Variant of RemoveEntryIDs that removes nothing.
RemoveEntryIDsSkipAll(w, entryIDs) == w
\* global.Cron.Remove for each id of a stored EntryIDs string; an id with no
\* entry is skipped by the scheduler.
RemoveEntryIDs(w, entryIDs) ==
    [w EXCEPT !.entries = {e \in w.entries : e.id \notin Range(SplitAtoi(entryIDs))}]

\* Variant of AddCronJob that adds the entry twice and returns the second id.
AddCronJobTwice(w, job, piece) ==
    IF ParsesOK(piece)
    THEN [w   |-> [w EXCEPT !.nextEntry = w.nextEntry + 2,
                            !.entries = w.entries \cup
                                {[id |-> w.nextEntry + 1, job |-> job, seg |-> piece[1]],
                                 [id |-> w.nextEntry + 2, job |-> job, seg |-> piece[1]]}],
          id  |-> w.nextEntry + 2,
          err |-> Nil]
    ELSE [w |-> w, id |-> 0, err |-> ErrParse]
\* AddCronJob: global.Cron.AddFunc(cronjob.Spec, func() { HandleJob(cronjob) }).
\* Returns the world and the issued id, or err.
AddCronJob(w, job, piece) ==
    IF ParsesOK(piece)
    THEN [w   |-> [w EXCEPT !.nextEntry = w.nextEntry + 1,
                            !.entries = w.entries \cup
                                {[id |-> w.nextEntry + 1, job |-> job, seg |-> piece[1]]}],
          id  |-> w.nextEntry + 1,
          err |-> Nil]
    ELSE [w |-> w, id |-> 0, err |-> ErrParse]

\* The loop of StartJob over the pieces of the spec: stops at the first piece
\* the scheduler rejects, leaving the entries added so far in place.
RECURSIVE AddPieces(_, _, _, _)
AddPieces(w, job, pieces, ids) ==
    IF Len(pieces) = 0
    THEN [w |-> w, ids |-> ids, err |-> Nil]
    ELSE LET r == AddCronJob(w, job, Head(pieces))
         IN  IF r.err # Nil
             THEN [w |-> r.w, ids |-> <<>>, err |-> r.err]
             ELSE AddPieces(r.w, job, Tail(pieces), Append(ids, r.id))

\* Variant of StartJob that registers the first piece of the spec only.
StartJobFirstPieceOnly(w, job, spec, entryIDs, isUpdate) ==
    LET w1 == IF Len(entryIDs) # 0 /\ isUpdate THEN RemoveEntryIDs(w, entryIDs) ELSE w
    IN  AddPieces(w1, job, <<Head(Split(spec))>>, <<>>)
\* StartJob(cronjob, isUpdate): cronjob carries Spec and EntryIDs.
StartJob(w, job, spec, entryIDs, isUpdate) ==
    LET w1 == IF Len(entryIDs) # 0 /\ isUpdate THEN RemoveEntryIDs(w, entryIDs) ELSE w
    IN  AddPieces(w1, job, Split(spec), <<>>)

\* ---- LoadNextHandle ----------------------------------------------------------
\* The text given to LoadNextHandle is a sequence of the tokens below.  Time
\* is counted in ticks of half a second; a formatted instant
\* (constant.DateTimeLayout) has the precision of a second.
Every      == "@every "
Space      == " "
Star       == "*"
StarSlash5 == "*/5"
Digits     == {"0", "3", "5"}
DigitVal(d) == IF d = "0" THEN 0 ELSE IF d = "3" THEN 3 ELSE 5

TicksPerSecond == 2
Second == TicksPerSecond
Minute == 60 * Second
Format(t) == t \div TicksPerSecond

HasPrefix(s, tok) == Len(s) >= 1 /\ s[1] = tok
HasSuffix(s, tok) == Len(s) >= 1 /\ s[Len(s)] = tok
ReplaceAll(s, tok) == SelectSeq(s, LAMBDA c : c # tok)

\* strconv.Atoi: the value of a non-empty run of digits, an error otherwise.
RECURSIVE DecimalValue(_)
DecimalValue(s) ==
    IF Len(s) = 0 THEN 0
    ELSE 10 * DecimalValue(SubSeq(s, 1, Len(s) - 1)) + DigitVal(s[Len(s)])
Atoi(s) ==
    IF Len(s) >= 1 /\ \A i \in 1..Len(s) : s[i] \in Digits
    THEN [ok |-> TRUE, n |-> DecimalValue(s)]
    ELSE [ok |-> FALSE, n |-> 0]

\* strings.Fields: the runs of tokens between spaces.
RECURSIVE Fields(_)
Fields(s) ==
    IF Len(s) = 0 THEN <<>>
    ELSE IF s[1] = Space THEN Fields(Tail(s))
    ELSE LET stop == IF \E k \in 1..Len(s) : s[k] = Space
                     THEN (CHOOSE k \in 1..Len(s) :
                               s[k] = Space /\ \A j \in 1..(k - 1) : s[j] # Space) - 1
                     ELSE Len(s)
         IN  <<SubSeq(s, 1, stop)>> \o Fields(SubSeq(s, stop + 1, Len(s)))

\* The values a field of a cron expression selects within lo..hi; the empty
\* set when the field is not of the grammar.
FieldValues(field, lo, hi) ==
    IF field = <<Star>> THEN lo..hi
    ELSE IF field = <<StarSlash5>> THEN {v \in lo..hi : (v - lo) % 5 = 0}
    ELSE IF Atoi(field).ok /\ Atoi(field).n \in lo..hi THEN {Atoi(field).n}
    ELSE {}

\* cron.NewParser(Minute | Hour | Dom | Month | Dow).Parse: exactly five
\* fields, each of the grammar.  The schedules computed here are those whose
\* day fields are "*".
CronParse(s) ==
    LET f == Fields(s)
    IN  IF Len(f) # 5 THEN [ok |-> FALSE, minutes |-> {}, hours |-> {}]
        ELSE LET minutes == FieldValues(f[1], 0, 59)
                 hours   == FieldValues(f[2], 0, 23)
                 days    == FieldValues(f[3], 1, 31)
                 months  == FieldValues(f[4], 1, 12)
                 dows    == FieldValues(f[5], 0, 6)
             IN  [ok |-> minutes # {} /\ hours # {} /\ days # {} /\ months # {}
                         /\ dows # {},
                  minutes |-> minutes, hours |-> hours]

\* sched.Next(now): the first whole minute after now whose minute and hour
\* the schedule selects.
CronNext(sched, now) ==
    LET first == now \div Minute + 1
        fits(k) == (k % 60) \in sched.minutes /\ ((k \div 60) % 24) \in sched.hours
        matching == {k \in first..(first + 24 * 60) : fits(k)}
        k == CHOOSE k \in matching : \A j \in matching : k <= j
    IN  k * Minute

\* The two loops of LoadNextHandle: n instants, each seeded from the last.
RECURSIVE NextsEvery(_, _, _)
NextsEvery(step, now, n) ==
    IF n = 0 THEN <<>>
    ELSE <<Format(now + step)>> \o NextsEvery(step, now + step, n - 1)
RECURSIVE NextsCron(_, _, _)
NextsCron(sched, now, n) ==
    IF n = 0 THEN <<>>
    ELSE LET nextTime == CronNext(sched, now)
         IN  <<Format(nextTime)>> \o NextsCron(sched, nextTime, n - 1)

\* LoadNextHandle(specStr) called when time.Now() is now.
LoadNextHandle(specStr, now) ==
    IF HasPrefix(specStr, Every)
    THEN LET duration == IF HasSuffix(specStr, "s") THEN Second ELSE Minute
             interval == ReplaceAll(ReplaceAll(ReplaceAll(specStr, Every), "s"), "m")
             durationItem == Atoi(interval)
         IN  IF ~durationItem.ok
             THEN [nexts |-> <<>>, err |-> ErrAtoi]
             ELSE [nexts |-> NextsEvery(durationItem.n * duration, now, 5), err |-> Nil]
    ELSE LET sched == CronParse(specStr)
         IN  IF ~sched.ok
             THEN [nexts |-> <<>>, err |-> ErrParse]
             ELSE [nexts |-> NextsCron(sched, now, 5), err |-> Nil]

\* ---- repositories -----------------------------------------------------------
\* Variant of GetByName that finds no row.
GetByNameNeverFinds(w, name) == 0
\* cronjobRepo.Get(WithByName(name)).ID: the first row of that name, 0 if none.
GetByName(w, name) ==
    LET hit == {i \in DOMAIN w.jobs : w.jobs[i].name = name}
    IN  IF hit = {} THEN 0 ELSE CHOOSE i \in hit : \A j \in hit : i <= j

\* cronjobRepo.Create(&cronjob): inserts the row under the next id.
InsertJob(w, row) ==
    [w EXCEPT !.jobs = [i \in DOMAIN w.jobs \cup {w.nextJobID} |->
                            IF i = w.nextJobID THEN row ELSE w.jobs[i]],
              !.nextJobID = w.nextJobID + 1]

\* cronjobRepo.Delete(WithByID(id))
DeleteJobRow(w, id) ==
    [w EXCEPT !.jobs = [i \in DOMAIN w.jobs \ {id} |-> w.jobs[i]]]

\* NewIAlertService().CreateAlert(createAlert)
CreateAlert(w, type, project, count) ==
    [w EXCEPT !.alerts = w.alerts \cup
                  {[type |-> type, project |-> project, count |-> count]}]

\* alertRepo.Delete(WithByProject(project), WithByType(type))
DeleteAlert(w, type, project) ==
    [w EXCEPT !.alerts = {a \in w.alerts : ~(a.type = type /\ a.project = project)}]

\* NewIAlertService().ExternalUpdateAlert(updateAlert): the subscription keyed
\* by (type, project) is replaced by the request's, or removed when the
\* request's count is 0.
ExternalUpdateAlert(w, type, project, count) ==
    IF count = 0
    THEN DeleteAlert(w, type, project)
    ELSE CreateAlert(DeleteAlert(w, type, project), type, project, count)

\* hasBackup(cronjob.Type): the types whose runs leave backup artifacts.
hasBackup(type) == type = "database"

\* ---- retention and records ---------------------------------------------------
\* removeExpiredBackup(cronjob, accountMap, record): on every account of
\* accountMap, the job's backup records beyond position retainCopies, counted
\* newest first, lose their artifact and then their row.
Newer(w, id, b) ==
    {c \in w.backups : c.cron = id /\ c.account = b.account /\ c.id.run > b.id.run}
\* Variant of removeExpiredBackup that counts from the oldest record.
removeExpiredBackupKeepsOldest(w, id, retainCopies, accountMap) ==
    LET expired == {b \in w.backups :
                       /\ b.cron = id
                       /\ b.account \in accountMap
                       /\ Cardinality({c \in w.backups :
                              c.cron = id /\ c.account = b.account
                                  /\ c.id.run < b.id.run}) >= retainCopies}
    IN  [w EXCEPT !.artifacts = w.artifacts \ {b.id : b \in expired},
                  !.backups = w.backups \ expired]
\* Variant of removeExpiredBackup for which retainCopies = 0 disables trimming.
removeExpiredBackupZeroDisables(w, id, retainCopies, accountMap) ==
    LET expired == {b \in w.backups :
                       /\ retainCopies # 0
                       /\ b.cron = id
                       /\ b.account \in accountMap
                       /\ Cardinality(Newer(w, id, b)) >= retainCopies}
    IN  [w EXCEPT !.artifacts = w.artifacts \ {b.id : b \in expired},
                  !.backups = w.backups \ expired]
removeExpiredBackup(w, id, retainCopies, accountMap) ==
    LET expired == {b \in w.backups :
                       /\ b.cron = id
                       /\ b.account \in accountMap
                       /\ Cardinality(Newer(w, id, b)) >= retainCopies}
    IN  [w EXCEPT !.artifacts = w.artifacts \ {b.id : b \in expired},
                  !.backups = w.backups \ expired]

\* Variant of DetachBackups that deletes the rows instead.
DetachBackupsDrops(w, id) ==
    [w EXCEPT !.backups = {b \in w.backups : b.cron # id}]
\* CleanRecord, lines 486-492: every backup record of the job is detached,
\* its CronjobID set to 0.
DetachBackups(w, id) ==
    [w EXCEPT !.backups = {IF b.cron = id THEN [b EXCEPT !.cron = 0] ELSE b :
                              b \in w.backups}]

\* Variant of PurgeRecords that purges the records of every job.
PurgeRecordsOfAll(w, id, failDelete) ==
    IF failDelete
    THEN [w |-> [w EXCEPT !.logs = {}], err |-> ErrDB]
    ELSE [w |-> [w EXCEPT !.logs = {}, !.records = {}], err |-> Nil]
\* CleanRecord, lines 493-502: the log files of the job's execution records
\* are removed, then the rows; failDelete is cronjobRepo.DeleteRecord failing.
PurgeRecords(w, id, failDelete) ==
    LET mine == {r \in w.records : r.job = id}
        w1   == [w EXCEPT !.logs = w.logs \ {r.id : r \in mine}]
    IN  IF failDelete
        THEN [w |-> w1, err |-> ErrDB]
        ELSE [w |-> [w1 EXCEPT !.records = w.records \ mine], err |-> Nil]

\* Variant of LocalOnly that keeps every account.
LocalOnlyKeepsAll(accountMap) == accountMap
\* CleanRecord, lines 473-479: every key other than constant.Local is deleted
\* from the account map.
LocalOnly(accountMap) == accountMap \cap {Local}

\* CleanRecord(dto.CronjobClean{CronjobID, CleanData, CleanRemoteData, IsDelete})
CleanRecord(w, id, cleanData, cleanRemoteData, isDelete, failDelete) ==
    IF id \notin DOMAIN w.jobs
    THEN [w |-> w, err |-> ErrRecordNotFound]
    ELSE LET cronjob    == w.jobs[id]
             allMap     == Range(cronjob.accounts)
             accountMap == IF cleanRemoteData THEN allMap ELSE LocalOnly(allMap)
             w1 == IF cleanData /\ hasBackup(cronjob.type) /\ accountMap # {}
                   THEN removeExpiredBackup(w, id, 0, accountMap)
                   ELSE w
             w2 == IF isDelete THEN DetachBackups(w1, id) ELSE w1
         IN  PurgeRecords(w2, id, failDelete)

\* ---- executions --------------------------------------------------------------
\* HandleJob(cronjob) runs in the goroutine of its caller: the scheduler's for
\* an entry, the request's for HandleOnce.  An execution works on the struct
\* it was given: the job's type, accounts, retainCopies and ignoreErr are
\* those the row had when the execution began.
NewExecution(w, id, ok) ==
    LET stored == id \in DOMAIN w.jobs
    IN  [run |-> w.runs + 1, job |-> id, ok |-> ok,
         type |-> IF stored THEN w.jobs[id].type ELSE "",
         backs |-> stored /\ ok /\ hasBackup(w.jobs[id].type),
         accounts |-> IF stored THEN Range(w.jobs[id].accounts) ELSE {},
         retain |-> IF stored THEN w.jobs[id].retain ELSE 0,
         ignoreErr |-> stored /\ w.jobs[id].ignoreErr,
         phase |-> "run", todo |-> {}]

\* The run itself: it appends the execution record with its log file; a
\* successful run of a backup type leaves one backup record and artifact per
\* source account.
HandleJobRun(w, e) ==
    LET made == IF e.backs
                THEN {[id |-> [run |-> e.run, account |-> a], cron |-> e.job,
                       account |-> a] : a \in e.accounts}
                ELSE {}
    IN  [w EXCEPT !.records = w.records \cup
                      {[id |-> e.run, job |-> e.job,
                        status |-> IF e.ok THEN Success ELSE Failed]},
                  !.logs = w.logs \cup {e.run},
                  !.backups = w.backups \cup made,
                  !.artifacts = w.artifacts \cup {b.id : b \in made}]

\* Variant of TrimAccounts for which no run trims.
TrimAccountsNone(e) == {}
\* the accounts a successful run trims: all of them when retainCopies > 0
TrimAccounts(e) == IF e.backs /\ e.retain > 0 THEN e.accounts ELSE {}

\* Variant of HandleJobTrim that does not wait for the other executions of
\* the job: it lists the backup records without those the executions still in
\* flight have made.
HandleJobTrimUnlocked(w, e, accountMap) ==
    LET hidden == {b \in w.backups :
                      \E x \in inflight : x.run # e.run /\ b.id.run = x.run}
        r == removeExpiredBackup([w EXCEPT !.backups = w.backups \ hidden],
                                 e.job, e.retain, accountMap)
    IN  [r EXCEPT !.backups = r.backups \cup hidden]
\* The trim of a successful run on the accounts of accountMap.  Trims of one
\* (job, account) pair are serialized: the listing and the deletions of one
\* trim are not interleaved with another's.
HandleJobTrim(w, e, accountMap) ==
    removeExpiredBackup(w, e.job, e.retain, accountMap)

\* Variant of HandleJobNotify that hands over every outcome of a subscribed
\* job.
HandleJobNotifyAlways(w, e) ==
    IF \E a \in w.alerts : a.type = e.type /\ a.project = e.job
    THEN [w EXCEPT !.notified = w.notified \cup
                       {[job |-> e.job, run |-> e.run,
                         status |-> IF e.ok THEN Success ELSE Failed]}]
    ELSE w
\* The outcome is handed to the alert service when the job has a
\* subscription, except a failure of a job whose ignoreErr is set.
HandleJobNotify(w, e) ==
    IF /\ \E a \in w.alerts : a.type = e.type /\ a.project = e.job
       /\ ~(~e.ok /\ e.ignoreErr)
    THEN [w EXCEPT !.notified = w.notified \cup
                       {[job |-> e.job, run |-> e.run,
                         status |-> IF e.ok THEN Success ELSE Failed]}]
    ELSE w

\* HandleJob(cronjob): one execution that no other overlaps.
HandleJob(w, id, ok) ==
    LET e  == NewExecution(w, id, ok)
        w1 == HandleJobRun([w EXCEPT !.runs = e.run], e)
    IN  HandleJobNotify(HandleJobTrim(w1, e, TrimAccounts(e)), e)

\* ---- handlers ---------------------------------------------------------------
\* A request carries name, type, spec, dbName, accounts, retain and count
\* (AlertCount).
\* fault names the collaborator call that fails during the handler:
\* "db" a write of the cronjob table, "alert" the alert service, "clean"
\* the deletion of record rows, "nolocal" the lookup of the local backup
\* account (it finds none), "none" nothing.

NewRow(req, entryIDs) ==
    [name |-> req.name, type |-> req.type, spec |-> req.spec,
     status |-> StatusEnable, entryIDs |-> entryIDs, dbName |-> req.dbName,
     accounts |-> req.accounts, download |-> req.download,
     retain |-> req.retain,
     ignoreErr |-> req.ignoreErr]

\* Variant of BindLocal that leaves the request's accounts.
BindLocalKeeps(req) == req
\* Create, lines 557-563: a job of type cutWebsiteLog gets the local backup
\* account as its download account and as its source accounts.
BindLocal(req) ==
    IF req.type = CutWebsiteLog
    THEN [req EXCEPT !.download = Local, !.accounts = <<Local>>]
    ELSE req

\* Create(req).  The entries call HandleJob with the struct that receives the
\* row's id on insertion; when the row is never inserted that id stays 0.
Create(w, req, fault) ==
    IF GetByName(w, req.name) # 0
    THEN [w |-> w, id |-> 0, err |-> ErrRecordExist]
    ELSE IF req.type = CutWebsiteLog /\ fault = "nolocal"
    THEN [w |-> w, id |-> 0, err |-> ErrLocalDir]
    ELSE LET inserted == (\A i \in 1..Len(Split(req.spec)) : ParsesOK(Split(req.spec)[i]))
                          /\ fault # "db"
             owner == IF inserted THEN w.nextJobID ELSE 0
             r == StartJob(w, owner, req.spec, <<>>, FALSE)
         IN  IF r.err # Nil THEN [w |-> r.w, id |-> 0, err |-> r.err]
             ELSE IF fault = "db" THEN [w |-> r.w, id |-> 0, err |-> ErrDB]
             ELSE LET w1 == InsertJob(r.w, NewRow(BindLocal(req), r.ids))
                  IN  IF req.count = 0
                      THEN [w |-> w1, id |-> owner, err |-> Nil]
                      ELSE IF fault = "alert"
                      THEN [w |-> w1, id |-> owner, err |-> ErrAlert]
                      ELSE [w |-> CreateAlert(w1, req.type, owner, req.count),
                            id |-> owner, err |-> Nil]

\* Variant of StatusAfterUpdate that leaves every status as it is.
StatusAfterUpdateKeeps(status) == status
\* Update, lines 677-679: the status the row has after the write.
StatusAfterUpdate(status) ==
    IF status = StatusPending THEN StatusEnable ELSE status

\* Update, lines 663-675: the entries of an Enable job are replaced through
\* StartJob; those of any other job are removed.  cronModel is the row that
\* cronjobRepo.Get returned.
UpdateStart(w, id, req, cronModel) ==
    IF cronModel.status = StatusEnable
    THEN StartJob(w, id, req.spec, cronModel.entryIDs, TRUE)
    ELSE [w |-> RemoveEntryIDs(w, cronModel.entryIDs),
          ids |-> cronModel.entryIDs, err |-> Nil]

\* Update, lines 662-708: cronjobRepo.Update(id, upMap) writes the columns
\* of upMap into the row of id as it is then; entry_ids is among them only
\* for a job read as Enable, status only for a job read as Pending.  A row
\* that is gone is not written.
UpdateWrite(w, id, req, cronModel, ids) ==
    IF id \notin DOMAIN w.jobs THEN w
    ELSE [w EXCEPT !.jobs[id] =
            [@ EXCEPT
                !.entryIDs = IF cronModel.status = StatusEnable THEN ids ELSE @,
                !.status = IF StatusAfterUpdate(cronModel.status) # cronModel.status
                           THEN StatusAfterUpdate(cronModel.status) ELSE @,
                !.name = req.name,
                !.spec = req.spec,
                !.dbName = req.dbName,
                !.accounts = req.accounts,
                !.download = req.download,
                !.retain = req.retain,
                !.ignoreErr = req.ignoreErr]]

\* Update(id, req)
Update(w, id, req, fault) ==
    IF id \notin DOMAIN w.jobs
    THEN [w |-> w, err |-> ErrRecordNotFound]
    ELSE LET cronModel == w.jobs[id]
             r == UpdateStart(w, id, req, cronModel)
         IN  IF r.err # Nil THEN [w |-> r.w, err |-> r.err]
             ELSE IF fault = "db" THEN [w |-> r.w, err |-> ErrDB]
             ELSE LET w1 == UpdateWrite(r.w, id, req, cronModel, r.ids)
                  IN  IF fault = "alert"
                      THEN [w |-> w1, err |-> ErrAlert]
                      ELSE [w |-> ExternalUpdateAlert(w1, cronModel.type, id, req.count),
                            err |-> Nil]

\* UpdateStatus, lines 736-748: StartJob without removal for Enable, the
\* removal of the stored entries for any other status.  cronjob is the row
\* that cronjobRepo.Get returned.
UpdateStatusStart(w, id, status, cronjob) ==
    IF status = StatusEnable
    THEN StartJob(w, id, cronjob.spec, cronjob.entryIDs, FALSE)
    ELSE [w |-> RemoveEntryIDs(w, cronjob.entryIDs), ids |-> <<>>, err |-> Nil]

\* UpdateStatus, line 749: cronjobRepo.Update writes status and entry_ids
\* into the row of id as it is then.
UpdateStatusWrite(w, id, status, ids) ==
    IF id \notin DOMAIN w.jobs THEN w
    ELSE [w EXCEPT !.jobs[id].status = status, !.jobs[id].entryIDs = ids]

\* UpdateStatus(id, status)
UpdateStatus(w, id, status, fault) ==
    IF id \notin DOMAIN w.jobs
    THEN [w |-> w, err |-> ErrRecordNotFound]
    ELSE LET cronjob == w.jobs[id]
             r == UpdateStatusStart(w, id, status, cronjob)
         IN  IF r.err # Nil THEN [w |-> r.w, err |-> r.err]
             ELSE IF fault = "db" THEN [w |-> r.w, err |-> ErrDB]
             ELSE [w |-> UpdateStatusWrite(r.w, id, status, r.ids), err |-> Nil]

\* The body of the loop of Delete for one id.
DeleteOne(w, id, cleanData, cleanRemoteData, fault) ==
    IF id \notin DOMAIN w.jobs
    THEN [w |-> w, err |-> ErrFindCronjob]
    ELSE LET cronjob == w.jobs[id]
             w1 == RemoveEntryIDs(w, cronjob.entryIDs)
             c  == CleanRecord(w1, id, cleanData, cleanRemoteData, TRUE, fault = "clean")
         IN  IF c.err # Nil THEN c
             ELSE IF fault = "db" THEN [w |-> c.w, err |-> ErrDB]
             ELSE IF fault = "alert" THEN [w |-> DeleteJobRow(c.w, id), err |-> ErrAlert]
             ELSE [w |-> DeleteAlert(DeleteJobRow(c.w, id), cronjob.type, id),
                   err |-> Nil]

\* Delete(req): the ids in order; returns at the first id that fails.
\* The fault, if any, strikes the id at position faultAt.
RECURSIVE Delete(_, _, _, _, _, _)
Delete(w, ids, cleanData, cleanRemoteData, fault, faultAt) ==
    IF Len(ids) = 0
    THEN [w |-> w, err |-> Nil]
    ELSE LET r == DeleteOne(w, Head(ids), cleanData, cleanRemoteData,
                            IF faultAt = 1 THEN fault ELSE "none")
         IN  IF r.err # Nil THEN r
             ELSE Delete(r.w, Tail(ids), cleanData, cleanRemoteData, fault, faultAt - 1)

\* Variant of HandleOnce that executes a job only when its status is Enable.
HandleOnceEnabledOnly(w, id, ok) ==
    IF id \notin DOMAIN w.jobs
    THEN [w |-> w, err |-> ErrRecordNotFound]
    ELSE IF w.jobs[id].status # StatusEnable THEN [w |-> w, err |-> Nil]
    ELSE [w |-> HandleJob(w, id, ok), err |-> Nil]
\* HandleOnce(id)
HandleOnce(w, id, ok) ==
    IF id \notin DOMAIN w.jobs
    THEN [w |-> w, err |-> ErrRecordNotFound]
    ELSE [w |-> HandleJob(w, id, ok), err |-> Nil]

\* mysqlRepo.Get / postgresqlRepo.Get by name: the row's id printed with %v,
\* or the error of a name that is not found.
LoadDBByName(name) ==
    IF name = ShopDB THEN [found |-> TRUE, id |-> ShopDBId]
    ELSE [found |-> FALSE, id |-> "0"]

\* The database with that id, as loadDbsForJob looks it up.
LoadDBByID(id) ==
    IF id = ShopDBId THEN [found |-> TRUE, name |-> ShopDB]
    ELSE [found |-> FALSE, name |-> ""]

\* backupRepo.Get(WithByName(ac)): whether a local account has that name.
LoadAccountByName(ac) == ac \in KnownAccounts

\* Import, lines 307-333: the ids of the names that are found, in order.
ResolveDBs(dbNames) ==
    LET hits == SelectSeq(dbNames, LAMBDA n : LoadDBByName(n).found)
    IN  [i \in 1..Len(hits) |-> LoadDBByName(hits[i]).id]

\* Import, lines 334-346: the accounts that are found, in order.
ResolveAccounts(accounts) == SelectSeq(accounts, LoadAccountByName)

\* Import, lines 340-342: DownloadAccountID is set when the download
\* account is one of the source accounts that are found.
ImportedDownload(item) ==
    IF \E i \in 1..Len(item.accounts) :
           LoadAccountByName(item.accounts[i]) /\ item.accounts[i] = item.download
    THEN item.download
    ELSE NoAccount

\* Variant of hasNotFound that reports every name as found.
hasNotFoundNever(item) == FALSE
\* Import, lines 275-345: hasNotFound after the switch on the type and the
\* loop over the source accounts.  Only a database item's names are looked up.
hasNotFound(item) ==
    \/ /\ item.type = "database"
       /\ \E i \in 1..Len(item.dbNames) : ~LoadDBByName(item.dbNames[i]).found
    \/ \E i \in 1..Len(item.accounts) : ~LoadAccountByName(item.accounts[i])

\* Variant of ImportStatus that marks every job Pending.
ImportStatusPending(notFound) == StatusPending
\* Import, lines 347-351
ImportStatus(notFound) == IF notFound THEN StatusPending ELSE StatusDisable

\* Variant of ImportedDBName without the case of the empty list.
ImportedDBNameResolvesEmpty(item) ==
    IF item.type # "database" THEN <<>> ELSE ResolveDBs(item.dbNames)
\* Import, lines 307-333: the DBName of the imported row; no case of the
\* switch sets it for a shell item.
ImportedDBName(item) ==
    IF item.type # "database" THEN <<>>
    ELSE IF Len(item.dbNames) = 0 THEN All
    ELSE ResolveDBs(item.dbNames)

\* Import(req): one entry of the batch.  The alert is created before the row
\* is inserted, while cronjob.ID is 0.
ImportOne(w, item) ==
    IF GetByName(w, item.name) # 0
    THEN w
    ELSE LET row == [name |-> item.name, type |-> item.type, spec |-> item.spec,
                     status |-> ImportStatus(hasNotFound(item)),
                     entryIDs |-> <<>>,
                     dbName |-> ImportedDBName(item),
                     accounts |-> ResolveAccounts(item.accounts),
                     download |-> ImportedDownload(item),
                     retain |-> item.retain,
                     ignoreErr |-> item.ignoreErr]
             w1 == IF item.count # 0
                   THEN CreateAlert(w, item.type, 0, item.count)
                   ELSE w
         IN  InsertJob(w1, row)

\* Import(req): every entry in order; always returns nil.
RECURSIVE Import(_, _)
Import(w, items) ==
    IF Len(items) = 0 THEN w ELSE Import(ImportOne(w, Head(items)), Tail(items))

\* loadDbsForJob(cronjob): the names of the databases whose ids the job's
\* DBName lists, in order; an id with no database yields none.
loadDbsForJob(cronjob) ==
    LET hits == SelectSeq(cronjob.dbName, LAMBDA i : LoadDBByID(i).found)
    IN  [i \in 1..Len(hits) |-> LoadDBByID(hits[i]).name]

\* loadBackupNamesByID(SourceAccountIDs, DownloadAccountID): the names of the
\* accounts that exist.  The model names an account's id by the account's
\* name.
loadBackupNamesByID(accounts) == SelectSeq(accounts, LoadAccountByName)

\* Export, lines 178-237: the entry exported for one job.
ExportOne(w, id) ==
    LET cronjob == w.jobs[id]
        found == {a \in w.alerts : a.type = cronjob.type /\ a.project = id}
    IN  [name |-> cronjob.name, type |-> cronjob.type, spec |-> cronjob.spec,
         dbNames |-> IF cronjob.type # "database" THEN <<>>
                     ELSE IF cronjob.dbName = All THEN <<>>
                     ELSE loadDbsForJob(cronjob),
         accounts |-> loadBackupNamesByID(cronjob.accounts),
         download |-> IF LoadAccountByName(cronjob.download)
                      THEN cronjob.download ELSE NoAccount,
         retain |-> cronjob.retain,
         ignoreErr |-> cronjob.ignoreErr,
         count |-> IF found = {} THEN 0 ELSE (CHOOSE a \in found : TRUE).count]

\* cronjobRepo.List(WithByIDs(ids)): the stored ids among ids, ascending.
RECURSIVE ListByIDs(_, _, _)
ListByIDs(w, ids, from) ==
    IF from >= w.nextJobID THEN <<>>
    ELSE (IF from \in DOMAIN w.jobs /\ from \in Range(ids) THEN <<from>> ELSE <<>>)
             \o ListByIDs(w, ids, from + 1)

\* Export(req): the entries of the jobs listed, which json.Marshal encodes
\* field by field; the model keeps the entries themselves.
Export(w, ids) ==
    LET list == ListByIDs(w, ids, 1)
    IN  [i \in 1..Len(list) |-> ExportOne(w, list[i])]

\* os.ReadFile(record.Records): the text of the log file of record id
ReadFile(id) == <<"log of run", id>>

\* Variant of LoadRecordLog without the os.Stat of the file.
LoadRecordLogSkipsStat(w, id, readFails) ==
    IF ~\E r \in w.records : r.id = id THEN <<>>
    ELSE IF readFails THEN <<>>
    ELSE ReadFile(id)
\* LoadRecordLog(req): the text of the record's log file, or "" when the
\* record is not found, the file is absent, or reading it fails (readFails).
LoadRecordLog(w, id, readFails) ==
    IF ~\E r \in w.records : r.id = id THEN <<>>
    ELSE IF id \notin w.logs THEN <<>>
    ELSE IF readFails THEN <<>>
    ELSE ReadFile(id)

\* ---- the state machine -----------------------------------------------------
\* The requests are drawn from one of the workloads, fixed for a run of the
\* service, so that the reachable states are their union and not their
\* product:
\*   "registry"  one job; every spec and alert count; faults in Create
\*   "pair"      up to MaxJobs jobs with the one-piece spec and no alert
\*   "history"   one job that is executed; every flag of Delete and of
\*               CleanRecord, and the deletion of record rows may fail
\*   "preview"   no job; the clock advances until the one call of
\*               LoadNextHandle
\*   "retention" one job that is executed up to MaxFirings times; every
\*               retainCopies up to MaxKeep, one or two source accounts
\*   "overlap"   one job whose executions proceed step by step, so that two
\*               of them overlap each other and the handlers
\*   "alerting"  one job that is executed, with or without ignoreErr and an
\*               alert subscription
\*   "neighbours" up to MaxJobs jobs that are executed and whose records are
\*               cleaned
\*   "weblog"    one job of type cutWebsiteLog, with or without a local
\*               backup account
\*   "exchange"  up to MaxJobs jobs of one name, one after the other, created
\*               or imported with every list of database names, and exported
\*   "racing"    one job; Update and UpdateStatus proceed step by step, each
\*               in the goroutine of its caller, so that the calls of
\*               MaxCallers callers overlap
\*   "strangers" up to MaxJobs jobs, one of which may be given a spec whose
\*               second piece does not parse; no Import
\* The writes of Update and UpdateStatus succeed in every workload.
Workloads == {"registry", "pair", "history", "preview", "retention", "overlap",
              "alerting", "neighbours", "exchange", "weblog", "racing",
              "strangers"}

JobCap    == IF workload \in {"pair", "neighbours", "exchange", "strangers"}
             THEN MaxJobs
             ELSE IF workload = "preview" THEN 0 ELSE 1
RunCap    == IF workload \in {"history", "alerting"} THEN MaxRuns
             ELSE IF workload = "retention" THEN MaxFirings
             ELSE IF workload \in {"overlap", "neighbours"} THEN MaxRuns + 1
             ELSE 0
\* the workloads of executions have no Import; they and "exchange" have at
\* most two registrations and, but for "neighbours", one name, of a database
\* job
Executing == {"retention", "overlap", "alerting", "neighbours"}
EntryCap  == IF workload \in Executing \cup {"exchange", "weblog"} THEN 2
             ELSE MaxEntry
ReqNames  == IF workload \in {"retention", "overlap", "alerting", "exchange",
                              "racing"}
             THEN {"nightly-db"}
             ELSE IF workload = "weblog" THEN {LogsName} ELSE Names
ReqTypes  == IF workload = "weblog" THEN {CutWebsiteLog} ELSE Types
ReqSpecs  == IF workload = "registry" THEN Specs
             ELSE IF workload = "strangers"
             THEN {<<CronSeg>>, <<CronSeg, Comma, BadSeg>>}
             ELSE {<<CronSeg>>}
ReqCounts == IF workload \in {"registry", "alerting"} THEN AlertCounts ELSE {0}
ReqFaults == IF workload = "registry" THEN {"none", "db", "alert"}
             ELSE IF workload = "weblog" THEN {"none", "nolocal"} ELSE {"none"}
DelFaults == IF workload = "history" THEN {"none", "clean"} ELSE {"none"}
DelFlags  == IF workload = "history" THEN BOOLEAN ELSE {FALSE}

AllAccountChoices == {<<Local>>, <<Local, Remote>>}
AccountChoices == IF workload = "retention" THEN AllAccountChoices
                  ELSE {<<Local, Remote>>}
RetainChoices  == IF workload = "retention" THEN 0..MaxKeep ELSE {1}
IgnoreChoices  == IF workload = "alerting" THEN BOOLEAN ELSE {FALSE}

\* A job's type is chosen with its name when it is created or imported.
TypeOf(name) ==
    IF name = "rotate" THEN "shell"
    ELSE IF name = LogsName THEN CutWebsiteLog ELSE "database"

\* The DBName of a request: all databases, or the id of a database that has
\* been dropped since, or never was.
ReqDBNames == IF workload = "exchange" THEN {All, <<DroppedDBId>>} ELSE {All}

Requests ==
    {r \in [name : ReqNames, type : ReqTypes, spec : ReqSpecs, dbName : ReqDBNames,
            accounts : AccountChoices, download : {Remote},
            retain : RetainChoices,
            ignoreErr : IgnoreChoices, count : ReqCounts] :
        r.type = TypeOf(r.name)}

\* The names an imported entry refers to.
DBNameChoices  == {<<>>, <<ShopDB>>, <<ShopDB, GhostDB>>}
AccountNameChoices == {<<Local, Remote>>, <<Local, Gone>>}
ItemDBNames == IF workload \in {"pair", "exchange"} THEN DBNameChoices ELSE {<<>>}

ImportItems ==
    {r \in [name : ReqNames, type : ReqTypes, spec : ReqSpecs, dbNames : ItemDBNames,
            accounts : AccountNameChoices, download : {Local},
            retain : RetainChoices,
            ignoreErr : IgnoreChoices, count : ReqCounts] :
        r.type = TypeOf(r.name)}

Batches == UNION {[1..n -> JobIds] : n \in 1..MaxBatch}

\* The texts LoadNextHandle is given.
SpecTexts ==
    {<<Every, "3", "0", "s">>, <<Every, "5", "m">>, <<Every, "0", "s">>,
     <<Every, "5">>, <<Every, "5", "h">>, <<Every, "s", "5", "m">>, <<Every>>,
     <<StarSlash5, Space, Star, Space, Star, Space, Star, Space, Star>>,
     <<"0", Space, "3", Space, Star, Space, Star, Space, Star>>,
     <<Star, Space, Star, Space, Star, Space, Star, Space, Star>>,
     <<Star, Space, Star, Space, Star, Space, Star>>,
     <<"5", "m">>, <<BadSeg>>, <<>>}

NoCall == [op |-> "Init", id |-> 0, err |-> Nil]
NoReply == <<>>
NoPreview == [spec |-> <<>>, now |-> 0, nexts |-> <<>>, err |-> "none"]
\* the callers whose Update and UpdateStatus calls proceed step by step, and
\* a caller that has made no call
Callers == 1..MaxCallers
Idle == [op |-> "none", phase |-> "idle"]

Init ==
    /\ jobs = <<>>
    /\ nextJobID = 1
    /\ entries = {}
    /\ nextEntry = 0
    /\ alerts = {}
    /\ records = {}
    /\ logs = {}
    /\ backups = {}
    /\ artifacts = {}
    /\ runs = 0
    /\ notified = {}
    /\ inflight = {}
    /\ last = NoCall
    /\ reply = NoReply
    /\ workload \in Workloads
    /\ clock = 0
    /\ preview = NoPreview
    /\ calls = [c \in Callers |-> Idle]

\* The handlers' part of the state becomes w.
Stores(w) ==
    /\ jobs' = w.jobs
    /\ nextJobID' = w.nextJobID
    /\ entries' = w.entries
    /\ nextEntry' = w.nextEntry
    /\ alerts' = w.alerts
    /\ records' = w.records
    /\ logs' = w.logs
    /\ backups' = w.backups
    /\ artifacts' = w.artifacts
    /\ runs' = w.runs
    /\ notified' = w.notified
    /\ reply' = NoReply
    /\ UNCHANGED <<inflight, workload, clock, preview>>

\* A handler that runs from its call to its return in one step.
Commit(w) == Stores(w) /\ UNCHANGED calls

Called(op, id, err) == last' = [op |-> op, id |-> id, err |-> err]

\* the entry ids a registration of spec may consume fit the bound
EntriesFit(spec) == nextEntry + Len(Split(spec)) <= EntryCap

CreateCall ==
    \E req \in Requests, fault \in ReqFaults :
        /\ GetByName(World, req.name) = 0 => (nextJobID <= JobCap /\ EntriesFit(req.spec))
        /\ LET r == Create(World, req, fault)
           IN  Commit(r.w) /\ Called("Create", r.id, r.err)

UpdateCall ==
    \E id \in JobIds, req \in Requests :
        /\ workload \notin {"overlap", "racing"}
        /\ EntriesFit(req.spec)
        /\ LET r == Update(World, id, req, "none")
           IN  Commit(r.w) /\ Called("Update", id, r.err)

UpdateStatusCall ==
    \E id \in JobIds, status \in Statuses :
        /\ workload # "racing"
        /\ id \in DOMAIN jobs => EntriesFit(jobs[id].spec)
        /\ LET r == UpdateStatus(World, id, status, "none")
           IN  Commit(r.w) /\ Called("UpdateStatus", id, r.err)

DeleteCall ==
    \E ids \in Batches, cleanData \in DelFlags, cleanRemoteData \in DelFlags,
       fault \in DelFaults :
        \E faultAt \in 1..Len(ids) :
            /\ workload # "racing"
            /\ cleanRemoteData => cleanData   \* read only when CleanData is set
            /\ LET r == Delete(World, ids, cleanData, cleanRemoteData, fault, faultAt)
               IN  Commit(r.w) /\ Called("Delete", Head(ids), r.err)

\* CleanRecord(req) called on its own, with IsDelete unset.
CleanRecordCall ==
    \E id \in JobIds, cleanData \in DelFlags, cleanRemoteData \in DelFlags,
       fault \in DelFaults :
        /\ workload \in {"history", "neighbours"}
        /\ cleanRemoteData => cleanData   \* read only when CleanData is set
        /\ LET r == CleanRecord(World, id, cleanData, cleanRemoteData, FALSE,
                                fault = "clean")
           IN  Commit(r.w) /\ Called("CleanRecord", id, r.err)

ImportCall ==
    \E n \in 1..MaxBatch :
        /\ workload \notin Executing \cup {"racing", "strangers"}
        /\ nextJobID + n - 1 <= JobCap
        /\ \E items \in [1..n -> ImportItems] :
            /\ Commit(Import(World, items))
            /\ Called("Import", 0, Nil)

\* Export(req) and LoadRecordLog(req) read the state and leave it as it is.
Reads(op, id, out) ==
    /\ Called(op, id, Nil)
    /\ reply' = out
    /\ UNCHANGED <<jobs, nextJobID, entries, nextEntry, alerts, records, logs,
                   backups, artifacts, runs, notified, inflight, workload, clock,
                   preview, calls>>

ExportCall ==
    \E ids \in Batches :
        /\ workload = "exchange"
        /\ Reads("Export", Head(ids), Export(World, ids))

LoadRecordLogCall ==
    \E id \in 1..(MaxRuns + 1), readFails \in BOOLEAN :
        /\ workload = "history"
        /\ Reads("LoadRecordLog", id, LoadRecordLog(World, id, readFails))

HandleOnceCall ==
    \E id \in JobIds, ok \in BOOLEAN :
        /\ workload # "overlap"
        /\ runs < RunCap
        /\ LET r == HandleOnce(World, id, ok)
           IN  Commit(r.w) /\ Called("HandleOnce", id, r.err)

\* The scheduler fires one entry: its callback runs HandleJob.
Fire ==
    \E e \in entries, ok \in BOOLEAN :
        /\ workload # "overlap"
        /\ runs < RunCap
        /\ Commit(HandleJob(World, e.job, ok))
        /\ Called("Fire", e.job, Nil)

\* In the "overlap" workload an execution takes several steps, and other
\* calls and other executions take theirs in between.
Begins(op, id, ok) ==
    /\ workload = "overlap"
    /\ runs < RunCap
    /\ inflight' = inflight \cup {NewExecution(World, id, ok)}
    /\ runs' = runs + 1
    /\ Called(op, id, Nil)
    /\ UNCHANGED <<jobs, nextJobID, entries, nextEntry, alerts, records, logs,
                   backups, artifacts, notified, reply, workload, clock, preview,
                   calls>>

\* The scheduler fires one entry: its callback enters HandleJob.
FireBegins == \E e \in entries, ok \in BOOLEAN : Begins("Fire", e.job, ok)

\* HandleOnce(id) on a stored job enters HandleJob.
HandleOnceBegins ==
    \E id \in DOMAIN jobs, ok \in BOOLEAN : Begins("HandleOnce", id, ok)

\* what a step of the execution of job id leaves of the rest of the state
Proceeds(w, id) ==
    /\ Called("HandleJob", id, Nil)
    /\ records' = w.records
    /\ logs' = w.logs
    /\ backups' = w.backups
    /\ artifacts' = w.artifacts
    /\ notified' = w.notified
    /\ UNCHANGED <<jobs, nextJobID, entries, nextEntry, alerts, runs, reply,
                   workload, clock, preview, calls>>

\* An execution in flight runs: its record and its backups appear.
RunStep ==
    \E e \in inflight :
        /\ e.phase = "run"
        /\ Proceeds(HandleJobRun(World, e), e.job)
        /\ inflight' = (inflight \ {e}) \cup
                           {[e EXCEPT !.phase = "trim", !.todo = TrimAccounts(e)]}

\* An execution in flight trims one of its accounts.
TrimStep ==
    \E e \in inflight :
        \E a \in e.todo :
            /\ Proceeds(HandleJobTrim(World, e, {a}), e.job)
            /\ inflight' = (inflight \ {e}) \cup {[e EXCEPT !.todo = e.todo \ {a}]}

\* An execution in flight returns, after the alert service has its outcome.
Returns ==
    \E e \in inflight :
        /\ e.phase = "trim" /\ e.todo = {}
        /\ Proceeds(HandleJobNotify(World, e), e.job)
        /\ inflight' = inflight \ {e}

\* In the "racing" workload Update and UpdateStatus take three steps each:
\* the read of the row, the change of the scheduler's table, the write of
\* the row.  Nothing in either handler excludes another call in between.
Pending(c) == calls[c].phase \in {"got", "started"}
\* cronjobRepo.Get when there is no row of the id: the zero value
ZeroRow == [status |-> "", entryIDs |-> <<>>]

\* Caller c calls op (Update with a request, UpdateStatus with a status) and
\* the handler reads the row: cronjobRepo.Get.  met is the set of the
\* callers whose call was under way at some time during this one.
CallGets ==
    \E c \in Callers, id \in JobIds, op \in {"Update", "UpdateStatus"} :
        \E arg \in IF op = "Update" THEN Requests ELSE Statuses :
            /\ workload = "racing"
            /\ calls[c] = Idle   \* each caller makes one call
            \* a spec of this workload has one piece
            /\ nextEntry + Cardinality({d \in Callers : Pending(d)}) + 1 <= EntryCap
            /\ calls' = [d \in Callers |->
                   IF d = c
                   THEN IF id \in DOMAIN jobs
                        THEN [op |-> op, id |-> id, arg |-> arg, cronModel |-> jobs[id],
                              ids |-> <<>>, phase |-> "got", err |-> Nil,
                              met |-> {x \in Callers : Pending(x)}]
                        ELSE [op |-> op, id |-> id, arg |-> arg, cronModel |-> ZeroRow,
                              ids |-> <<>>, phase |-> "returned",
                              err |-> ErrRecordNotFound, met |-> {}]
                   ELSE IF Pending(d) THEN [calls[d] EXCEPT !.met = @ \cup {c}]
                   ELSE calls[d]]
            /\ IF id \in DOMAIN jobs THEN UNCHANGED last
               ELSE Called(op, id, ErrRecordNotFound)
            /\ UNCHANGED <<jobs, nextJobID, entries, nextEntry, alerts, records,
                           logs, backups, artifacts, runs, notified, inflight,
                           reply, workload, clock, preview>>

\* The handler of caller c changes the scheduler's table, from the row it
\* has read; a piece that does not parse returns the error to the caller.
CallStarts ==
    \E c \in Callers :
        /\ calls[c].phase = "got"
        /\ LET k == calls[c]
               r == IF k.op = "Update"
                    THEN UpdateStart(World, k.id, k.arg, k.cronModel)
                    ELSE UpdateStatusStart(World, k.id, k.arg, k.cronModel)
           IN  /\ Stores(r.w)
               /\ IF r.err # Nil
                  THEN /\ calls' = [calls EXCEPT ![c].phase = "returned",
                                                 ![c].err = r.err]
                       /\ Called(k.op, k.id, r.err)
                  ELSE /\ calls' = [calls EXCEPT ![c].phase = "started",
                                                 ![c].ids = r.ids]
                       /\ UNCHANGED last

\* The handler of caller c writes the row and returns.
CallWrites ==
    \E c \in Callers :
        /\ calls[c].phase = "started"
        /\ LET k == calls[c]
               w == IF k.op = "Update"
                    THEN ExternalUpdateAlert(
                             UpdateWrite(World, k.id, k.arg, k.cronModel, k.ids),
                             k.cronModel.type, k.id, k.arg.count)
                    ELSE UpdateStatusWrite(World, k.id, k.arg, k.ids)
           IN  /\ Stores(w)
               /\ calls' = [calls EXCEPT ![c].phase = "returned"]
               /\ Called(k.op, k.id, Nil)

\* Time passes.
Tick ==
    /\ workload = "preview"
    /\ preview = NoPreview
    /\ clock < MaxClock
    /\ clock' = clock + 1
    /\ UNCHANGED <<jobs, nextJobID, entries, nextEntry, alerts, records, logs,
                   backups, artifacts, runs, notified, inflight, last, reply,
                   workload, preview, calls>>

LoadNextHandleCall ==
    \E specStr \in SpecTexts :
        /\ workload = "preview"
        /\ preview = NoPreview
        /\ LET r == LoadNextHandle(specStr, clock)
           IN  /\ preview' = [spec |-> specStr, now |-> clock,
                              nexts |-> r.nexts, err |-> r.err]
               /\ Called("LoadNextHandle", 0, r.err)
        /\ UNCHANGED <<jobs, nextJobID, entries, nextEntry, alerts, records, logs,
                       backups, artifacts, runs, notified, inflight, reply,
                       workload, clock, calls>>

Next ==
    \/ CreateCall
    \/ UpdateCall
    \/ UpdateStatusCall
    \/ DeleteCall
    \/ CleanRecordCall
    \/ ImportCall
    \/ ExportCall
    \/ LoadRecordLogCall
    \/ HandleOnceCall
    \/ Fire
    \/ FireBegins
    \/ HandleOnceBegins
    \/ RunStep
    \/ TrimStep
    \/ Returns
    \/ CallGets
    \/ CallStarts
    \/ CallWrites
    \/ Tick
    \/ LoadNextHandleCall

Spec == Init /\ [][Next]_vars

\* ---- properties ---------------------------------------------------------------
\* Every request a handler may be given, whatever the workload.
AllRequests ==
    [name : Names, type : Types, spec : Specs, dbName : {All},
     accounts : {<<Local, Remote>>}, download : {Remote}, retain : {1},
     ignoreErr : {FALSE}, count : AlertCounts]
    \cup
    [name : {"nightly-db"}, type : {"database"}, spec : {<<CronSeg>>},
     dbName : {All}, accounts : AllAccountChoices, download : {Remote},
     retain : 0..MaxKeep, ignoreErr : {FALSE}, count : {0}]
    \cup
    [name : {"nightly-db"}, type : {"database"}, spec : {<<CronSeg>>},
     dbName : {All}, accounts : {<<Local, Remote>>}, download : {Remote},
     retain : {1}, ignoreErr : BOOLEAN, count : AlertCounts]
    \cup
    [name : {LogsName}, type : {CutWebsiteLog}, spec : Specs, dbName : {All},
     accounts : {<<Local, Remote>>}, download : {Remote}, retain : {1},
     ignoreErr : {FALSE}, count : AlertCounts]
AllFlags == {f \in [data : BOOLEAN, remote : BOOLEAN] : f.remote => f.data}

NumSegments(spec) == Len(Split(spec))
EntryIdsOf(w) == {e.id : e \in w.entries}
\* the entries whose callback executes job id
OwnedBy(w, id) == {e \in w.entries : e.job = id}
NameUsed(w, name) == \E i \in DOMAIN w.jobs : w.jobs[i].name = name
\* ids is the list of the ids of the entries in added, one per piece of spec,
\* in the order of the pieces, each entry calling job id
FreshFor(added, ids, id, spec) ==
    /\ Len(ids) = NumSegments(spec)
    /\ Cardinality(added) = NumSegments(spec)
    /\ \A i \in 1..Len(ids) :
           [id |-> ids[i], job |-> id, seg |-> Split(spec)[i][1]] \in added

\* C1: every job whose status is Enable stores exactly one handle per
\* comma-separated segment of its stored spec, each registered in the scheduler.
C1_EnabledJobsHoldRegisteredHandles ==
    \A id \in DOMAIN jobs :
        jobs[id].status = StatusEnable =>
            /\ Len(jobs[id].entryIDs) = NumSegments(jobs[id].spec)
            /\ Cardinality(Range(jobs[id].entryIDs)) = NumSegments(jobs[id].spec)
            /\ Range(jobs[id].entryIDs) \subseteq EntryIdsOf(World)

\* C2: a job whose status is Disable or Pending stores no handle and has no
\* handle registered in the scheduler.
C2_IdleJobsHaveNoHandles ==
    \A id \in DOMAIN jobs :
        jobs[id].status \in {StatusDisable, StatusPending} =>
            /\ jobs[id].entryIDs = <<>>
            /\ OwnedBy(World, id) = {}

\* C3: after a successful Update of an Enable job the entries registered for
\* the job are exactly the fresh ones, one per segment of the new spec, and
\* none of the entries the job had before is still registered.
C3_UpdateLeavesOnlyFreshHandles ==
    \A id \in DOMAIN jobs, req \in AllRequests :
        LET r == Update(World, id, req, "none")
        IN  (jobs[id].status = StatusEnable /\ r.err = Nil) =>
                /\ FreshFor(OwnedBy(r.w, id), r.w.jobs[id].entryIDs, id, req.spec)
                /\ OwnedBy(World, id) \cap r.w.entries = {}

\* C4: a successful Create with a spec of k valid segments registers exactly k
\* handles, stores exactly those on the job, and stores the job with status
\* Enable and its whole spec.
C4_CreateRegistersOnePerSegment ==
    \A req \in AllRequests :
        LET r == Create(World, req, "none")
        IN  r.err = Nil =>
                /\ r.id \in DOMAIN r.w.jobs /\ r.id \notin DOMAIN jobs
                /\ FreshFor(r.w.entries \ entries, r.w.jobs[r.id].entryIDs, r.id, req.spec)
                /\ entries \subseteq r.w.entries
                /\ r.w.jobs[r.id].status = StatusEnable
                /\ r.w.jobs[r.id].spec = req.spec
                /\ r.w.jobs[r.id].name = req.name

C4_Witness ==
    /\ last.op = "Create" /\ last.err = Nil
    /\ last.id \in DOMAIN jobs
    /\ jobs[last.id].spec = <<CronSeg, Comma, EverySeg>>
    /\ jobs[last.id].status = StatusEnable
    /\ jobs[last.id].entryIDs = <<1, 2>>
    /\ entries = {[id |-> 1, job |-> last.id, seg |-> CronSeg],
                  [id |-> 2, job |-> last.id, seg |-> EverySeg]}

\* C5: no two jobs have the same name.
C5_NamesUnique ==
    \A i \in DOMAIN jobs, j \in DOMAIN jobs : i # j => jobs[i].name # jobs[j].name

\* C6: Create with a name an existing job uses fails with the duplicate-name
\* error and changes nothing: no entry, no job, no alert.
C6_DuplicateCreateRejected ==
    \A req \in AllRequests, fault \in {"none", "db", "alert"} :
        NameUsed(World, req.name) =>
            LET r == Create(World, req, fault)
            IN  r.err = ErrRecordExist /\ r.w = World

C6_Witness ==
    /\ last.op = "Create" /\ last.err = ErrRecordExist
    /\ jobs # <<>>
    /\ entries # {}

\* C7: after Delete returns successfully, for every id of the batch no entry
\* of the job is registered, no execution record and no log file of the job
\* remains, the job row is gone and no alert keyed by (type, id) remains.
C7_DeleteLeavesNothing ==
    \A ids \in Batches, f \in AllFlags :
        LET r == Delete(World, ids, f.data, f.remote, "none", 1)
        IN  r.err = Nil =>
                \A id \in Range(ids) :
                    /\ OwnedBy(r.w, id) = {}
                    /\ {x \in r.w.records : x.job = id} = {}
                    /\ {x.id : x \in {y \in records : y.job = id}} \cap r.w.logs = {}
                    /\ id \notin DOMAIN r.w.jobs
                    /\ ~\E a \in r.w.alerts : a.type = jobs[id].type /\ a.project = id

\* C8: Delete of a batch deletes every id of the batch that has a job, also
\* when another id of the batch fails.
C8_DeleteContinuesPastFailure ==
    \A ids \in Batches, f \in AllFlags :
        LET r == Delete(World, ids, f.data, f.remote, "none", 1)
        IN  \A id \in Range(ids) : id \in DOMAIN jobs => id \notin DOMAIN r.w.jobs

C10_UpdateStatusSetsHandles ==
    \A id \in DOMAIN jobs, status \in Statuses :
        LET r == UpdateStatus(World, id, status, "none")
        IN  r.err = Nil =>
                /\ r.w.jobs[id].status = status
                /\ r.w.jobs[id].spec = jobs[id].spec
                /\ status = StatusEnable =>
                       FreshFor(r.w.entries \ entries, r.w.jobs[id].entryIDs,
                                id, jobs[id].spec)
                /\ status # StatusEnable =>
                       /\ r.w.jobs[id].entryIDs = <<>>
                       /\ Range(jobs[id].entryIDs) \cap EntryIdsOf(r.w) = {}

C10_Witness ==
    /\ last.op = "UpdateStatus" /\ last.err = Nil
    /\ last.id \in DOMAIN jobs
    /\ jobs[last.id].status = StatusEnable
    /\ jobs[last.id].spec = <<CronSeg, Comma, EverySeg>>
    /\ jobs[last.id].entryIDs = <<3, 4>>
    /\ entries = {[id |-> 3, job |-> last.id, seg |-> CronSeg],
                  [id |-> 4, job |-> last.id, seg |-> EverySeg]}

\* ---- Import --------------------------------------------------------------------
\* Every entry Import may be given, whatever the workload.
AllImportItems ==
    {r \in [name : Names, type : Types, spec : Specs, dbNames : DBNameChoices,
            accounts : AccountNameChoices, download : {Local},
            retain : RetainChoices,
            ignoreErr : IgnoreChoices, count : AlertCounts] :
        r.type = TypeOf(r.name)}
\* The batches ImportCall may pass in the current state.
ImportBatches ==
    UNION {[1..n -> ImportItems] : n \in {m \in 1..MaxBatch : nextJobID + m - 1 <= JobCap}}
\* The entry names a database or a backup account that does not exist locally.
RefersToUnknown(item) ==
    \/ item.type = "database" /\ GhostDB \in Range(item.dbNames)
    \/ Gone \in Range(item.accounts)
\* The rows w has and w0 has not.
CreatedIn(w0, w) == DOMAIN w.jobs \ DOMAIN w0.jobs
\* Entry i is the one of its name that Import creates a job for: the name is
\* not in use before the call and no earlier entry of the batch has it.
CreatesJob(w0, items, i) ==
    /\ ~NameUsed(w0, items[i].name)
    /\ \A j \in 1..(i - 1) : items[j].name # items[i].name

C12_UpdateRepairsPendingKeepsDisable ==
    \A id \in DOMAIN jobs, req \in AllRequests :
        LET r == Update(World, id, req, "none")
        IN  r.err = Nil =>
                /\ jobs[id].status = StatusPending =>
                       r.w.jobs[id].status = StatusEnable
                /\ jobs[id].status = StatusDisable =>
                       /\ r.w.jobs[id].status = StatusDisable
                       /\ r.w.entries \subseteq entries
                       /\ r.w.nextEntry = nextEntry

C12_Witness ==
    /\ last.op = "Update" /\ last.err = Nil
    /\ last.id \in DOMAIN jobs
    /\ jobs[last.id].status = StatusEnable
    /\ jobs[last.id].entryIDs = <<>>
    /\ OwnedBy(World, last.id) = {}

\* C13: Import stores status Disable for every entry it creates whose names
\* all resolve, and registers nothing: the scheduler's entries are the same
\* after the call, and every job the call created stores no handle and has no
\* entry.
C13_ImportRegistersNothing ==
    /\ \A item \in AllImportItems :
           ~NameUsed(World, item.name) =>
               LET w == ImportOne(World, item)
               IN  /\ w.entries = entries /\ w.nextEntry = nextEntry
                   /\ w.jobs[nextJobID].entryIDs = <<>>
                   /\ OwnedBy(w, nextJobID) = {}
                   /\ ~RefersToUnknown(item) => w.jobs[nextJobID].status = StatusDisable
    /\ \A items \in ImportBatches :
           LET w == Import(World, items)
           IN  /\ w.entries = entries /\ w.nextEntry = nextEntry
               /\ \A id \in CreatedIn(World, w) :
                      /\ w.jobs[id].entryIDs = <<>>
                      /\ OwnedBy(w, id) = {}
                      /\ w.jobs[id].status # StatusEnable
               /\ \A i \in 1..Len(items) :
                      (CreatesJob(World, items, i) /\ ~RefersToUnknown(items[i])) =>
                          \E id \in CreatedIn(World, w) :
                              /\ w.jobs[id].name = items[i].name
                              /\ w.jobs[id].status = StatusDisable

C13_Witness ==
    /\ last.op = "Import" /\ last.err = Nil
    /\ DOMAIN jobs = {1, 2}
    /\ jobs[2].status = StatusDisable
    /\ jobs[2].dbName = <<ShopDBId>>
    /\ jobs[2].accounts = <<Local, Remote>>
    /\ jobs[2].entryIDs = <<>>
    /\ entries = {[id |-> 1, job |-> 1, seg |-> CronSeg]}

\* C14: for an entry with an embedded alert subscription, Import leaves an
\* alert keyed by the entry's type and the id of the job it created for the
\* entry, with the entry's count.
C14_ImportedAlertKeyedByNewJob ==
    \A item \in AllImportItems :
        (~NameUsed(World, item.name) /\ item.count # 0) =>
            LET w == ImportOne(World, item)
            IN  [type |-> item.type, project |-> nextJobID, count |-> item.count]
                    \in w.alerts

\* C15: Import skips an entry whose name a job already has: nothing changes.
\* Within a batch, at most one job is created per name, none for a name in
\* use before the call, and the jobs and entries that existed are unchanged.
C15_ImportSkipsUsedNames ==
    /\ \A item \in AllImportItems :
           NameUsed(World, item.name) => ImportOne(World, item) = World
    /\ \A items \in ImportBatches :
           LET w == Import(World, items)
           IN  /\ \A id \in DOMAIN jobs : id \in DOMAIN w.jobs /\ w.jobs[id] = jobs[id]
               /\ w.entries = entries
               /\ \A name \in Names :
                      Cardinality({id \in CreatedIn(World, w) : w.jobs[id].name = name})
                          = IF \E i \in 1..Len(items) :
                                   CreatesJob(World, items, i) /\ items[i].name = name
                            THEN 1 ELSE 0
               /\ w.alerts = alerts \cup
                      {[type |-> items[i].type, project |-> 0, count |-> items[i].count] :
                           i \in {j \in 1..Len(items) :
                                      CreatesJob(World, items, j) /\ items[j].count # 0}}

C15_Witness ==
    /\ last.op = "Import" /\ last.err = Nil
    /\ DOMAIN jobs = {1} /\ nextJobID = 2
    /\ jobs[1].status = StatusEnable
    /\ entries = {[id |-> 1, job |-> 1, seg |-> CronSeg]}

\* ---- LoadNextHandle ---------------------------------------------------------------
\* The trigger grammar: "@every <int>(s|m)", or five cron fields.
IsIntervalForm(s) ==
    /\ Len(s) >= 3
    /\ s[1] = Every
    /\ s[Len(s)] \in {"s", "m"}
    /\ \A i \in 2..(Len(s) - 1) : s[i] \in Digits
IsCronForm(s) == CronParse(s).ok
Called_LoadNextHandle == preview # NoPreview

\* C16: for a text of the grammar, LoadNextHandle returns no error and exactly
\* five instants, the first later than the time of the call and each later
\* than the one before it.
C16_FiveIncreasingFutureInstants ==
    (Called_LoadNextHandle /\ (IsIntervalForm(preview.spec) \/ IsCronForm(preview.spec))) =>
        /\ preview.err = Nil
        /\ Len(preview.nexts) = 5
        /\ preview.nexts[1] * TicksPerSecond > preview.now
        /\ \A i \in 1..4 : preview.nexts[i + 1] > preview.nexts[i]

\* C17: LoadNextHandle returns an error for every text that is not of the
\* grammar, and takes a text for an interval only when it is "@every", one
\* integer and one unit letter s or m.
C17_RejectsTextsOutsideGrammar ==
    Called_LoadNextHandle =>
        /\ (~IsIntervalForm(preview.spec) /\ ~IsCronForm(preview.spec)) =>
               preview.err # Nil
        /\ (preview.err = Nil /\ HasPrefix(preview.spec, Every)) =>
               IsIntervalForm(preview.spec)

\* ---- register and unregister ------------------------------------------------------
\* Stored handle strings: the empty one, and up to two ids issued or not.
HandleStrings ==
    {<<>>} \cup {<<i>> : i \in 1..(MaxEntry + 1)}
           \cup {<<i, j>> : i \in 1..(MaxEntry + 1), j \in 1..(MaxEntry + 1)}

\* C18: adding an entry and removing the id returned restores the entries of
\* the scheduler; UpdateStatus(id, Enable) on a Disable job followed by
\* UpdateStatus(id, Disable) leaves exactly the entries there were before.
C18_EnableThenDisableRestoresEntries ==
    /\ \A j \in JobIds, piece \in {<<CronSeg>>, <<EverySeg>>} :
           LET r == AddCronJob(World, j, piece)
           IN  RemoveEntryIDs(r.w, <<r.id>>).entries = entries
    /\ \A id \in DOMAIN jobs :
           jobs[id].status = StatusDisable =>
               LET r1 == UpdateStatus(World, id, StatusEnable, "none")
                   r2 == UpdateStatus(r1.w, id, StatusDisable, "none")
               IN  r1.err = Nil =>
                       /\ r1.w.entries # entries
                       /\ r2.err = Nil
                       /\ r2.w.entries = entries
                       /\ r2.w.jobs[id].entryIDs = <<>>

C18_Witness ==
    /\ workload = "registry"
    /\ last = [op |-> "UpdateStatus", id |-> 1, err |-> Nil]
    /\ 1 \in DOMAIN jobs
    /\ jobs[1].status = StatusDisable
    /\ \E a \in alerts : a.project = 0
    /\ nextEntry = 2
    /\ entries = {}

\* C19: removing the ids of a stored handle string twice is the same as
\* removing them once; removing ids that no entry has, or the id read from the
\* empty string, changes nothing; Update, UpdateStatus and Delete of a job that
\* stores no handle remove no entry.
C19_UnregisterIdempotent ==
    /\ \A h \in HandleStrings :
           /\ RemoveEntryIDs(RemoveEntryIDs(World, h), h) = RemoveEntryIDs(World, h)
           /\ Range(h) \cap EntryIdsOf(World) = {} => RemoveEntryIDs(World, h) = World
    /\ \A id \in DOMAIN jobs :
           jobs[id].entryIDs = <<>> =>
               /\ UpdateStatus(World, id, StatusDisable, "none").w.entries = entries
               /\ Delete(World, <<id>>, FALSE, FALSE, "none", 1).w.entries = entries
               /\ jobs[id].status # StatusEnable =>
                      \A req \in AllRequests :
                          Update(World, id, req, "none").w.entries = entries

C19_Witness ==
    /\ workload = "pair"
    /\ last = [op |-> "UpdateStatus", id |-> 1, err |-> Nil]
    /\ DOMAIN jobs = {1, 2}
    /\ jobs[1].status = StatusDisable /\ jobs[1].entryIDs = <<>>
    /\ nextEntry = 1
    /\ entries = {[id |-> 1, job |-> 2, seg |-> CronSeg]}

\* ---- CleanRecord -------------------------------------------------------------------
\* The accounts CleanRecord may clean for job id.
CleanedAccounts(id, cleanRemoteData) ==
    IF cleanRemoteData THEN Range(jobs[id].accounts)
    ELSE Range(jobs[id].accounts) \cap {Local}

C21_LocalCleanSparesRemote ==
    \A id \in DOMAIN jobs, isDelete \in BOOLEAN :
        LET r == CleanRecord(World, id, TRUE, FALSE, isDelete, FALSE)
        IN  r.err = Nil =>
                /\ artifacts \ r.w.artifacts \subseteq
                       {b.id : b \in {c \in backups : c.cron = id /\ c.account = Local}}
                /\ \A b \in backups :
                       b.account # Local => \E c \in r.w.backups : c.id = b.id
                /\ ~isDelete => \A b \in backups : b.account # Local => b \in r.w.backups

C21_Witness ==
    /\ last.op = "CleanRecord" /\ last.err = Nil
    /\ last.id \in DOMAIN jobs
    /\ jobs[last.id].type = "database"
    /\ \E b \in backups : b.cron = last.id /\ b.account = Remote /\ b.id \in artifacts
    /\ ~\E b \in backups : b.account = Local
    /\ logs = {}

\* C22: CleanRecord with cleanData and isDelete unset deletes no backup
\* artifact and changes no backup record, removes the log file of every
\* execution record of the job and deletes those rows, and leaves the
\* execution records and log files of other jobs as they are.
C22_PlainCleanPurgesOnlyOwnHistory ==
    \A id \in DOMAIN jobs :
        LET r == CleanRecord(World, id, FALSE, FALSE, FALSE, FALSE)
            mine == {x \in records : x.job = id}
        IN  /\ r.err = Nil
            /\ r.w.artifacts = artifacts
            /\ r.w.backups = backups
            /\ r.w.records = records \ mine
            /\ r.w.logs = logs \ {x.id : x \in mine}

C22_Witness ==
    /\ last.op = "CleanRecord" /\ last.err = Nil
    /\ last.id \in DOMAIN jobs
    /\ runs = 2
    /\ \E other \in DOMAIN jobs :
           /\ other # last.id
           /\ records = {[id |-> 1, job |-> other, status |-> Success]}
    /\ logs = {1}
    /\ \E b \in backups : b.id \in artifacts

\* ---- retention -------------------------------------------------------------
\* the backup records of job id on account a
RowsOf(w, id, a) == {b \in w.backups : b.cron = id /\ b.account = a}
Min(m, n) == IF m < n THEN m ELSE n

\* C23: removeExpiredBackup with retainCopies = N > 0 on an account that
\* holds M backup records of the job deletes, when M > N, exactly the M - N
\* oldest records with their artifacts and leaves the N newest, each with its
\* artifact; when M <= N it deletes nothing.  Nothing else changes.
C23_TrimDeletesOldestBeyondN ==
    \A id \in DOMAIN jobs, N \in 1..MaxKeep, a \in KnownAccounts :
        LET rows == RowsOf(World, id, a)
            M    == Cardinality(rows)
            r    == removeExpiredBackup(World, id, N, {a})
            kept == RowsOf(r, id, a)
            gone == rows \ kept
        IN  /\ M <= N => r = World
            /\ M > N =>
                   /\ Cardinality(gone) = M - N
                   /\ Cardinality(kept) = N
                   /\ \A g \in gone, k \in kept : g.id.run < k.id.run
                   /\ \A k \in kept : k.id \in r.artifacts
                   /\ artifacts \ r.artifacts = {g.id : g \in gone}
                   /\ r.backups = backups \ gone
                   /\ r = [World EXCEPT !.backups = r.backups,
                                        !.artifacts = r.artifacts]

\* the third successful run of a job that keeps two copies has trimmed the
\* first run's backup on each account
C23_Witness ==
    /\ last.op = "Fire"
    /\ last.id \in DOMAIN jobs
    /\ jobs[last.id].retain = 2
    /\ {x \in records : x.job = last.id /\ x.status = Success} =
           {[id |-> n, job |-> last.id, status |-> Success] : n \in 1..3}
    /\ \A a \in Range(jobs[last.id].accounts) :
           {b.id.run : b \in RowsOf(World, last.id, a)} = {2, 3}
    /\ artifacts = {b.id : b \in backups}
    /\ Cardinality(backups) = 4

\* k successive firings of job id, each successful and overlapping no other
RECURSIVE Firings(_, _, _)
Firings(w, id, k) ==
    IF k = 0 THEN w ELSE Firings(HandleJob(w, id, TRUE), id, k - 1)

Created(id) == Cardinality({x \in records : x.job = id /\ x.status = Success})
\* the executions of job id in flight that have run and have yet to trim a
Untrimmed(id, a) == {e \in inflight : e.job = id /\ a \in e.todo}

\* C25: while executions of one job overlap (the "overlap" workload, where
\* the job keeps its retainCopies and accounts), on each account the job has
\* at least min(retainCopies, records created) backup records and at most
\* retainCopies more than the executions that have yet to trim it; so once
\* every execution has returned exactly min(retainCopies, records created)
\* remain.  A trim deletes only records that are still listed and whose
\* artifact still exists.
C25_OverlappingTrimsSerialized ==
    /\ \A e \in inflight, a \in KnownAccounts :
           a \in e.todo =>
               \A b \in backups \ HandleJobTrim(World, e, {a}).backups :
                   b.id \in artifacts
    /\ workload = "overlap" =>
           \A id \in DOMAIN jobs, a \in KnownAccounts :
               (a \in Range(jobs[id].accounts) /\ jobs[id].retain > 0) =>
                   LET n == Cardinality(RowsOf(World, id, a))
                   IN  /\ n >= Min(jobs[id].retain, Created(id))
                       /\ n <= jobs[id].retain + Cardinality(Untrimmed(id, a))
                       /\ n <= Created(id)

\* two executions of the job have both run; one has trimmed the local
\* account, the other has yet to
C25_Witness ==
    /\ Cardinality(inflight) = 2
    /\ \A e \in inflight : e.job \in DOMAIN jobs /\ e.phase = "trim" /\ e.ok
    /\ \E e \in inflight : e.todo = {Remote}
    /\ \E e \in inflight : e.todo = {Local, Remote}
    /\ \E id \in DOMAIN jobs :
           /\ jobs[id].retain = 1
           /\ Created(id) = 2
           /\ RowsOf(World, id, Local) =
                  {[id |-> [run |-> 2, account |-> Local], cron |-> id,
                    account |-> Local]}
           /\ Cardinality(RowsOf(World, id, Remote)) = 2

\* C26: a call of UpdateStatus or Delete leaves every execution in flight as
\* it is, and every firing that begins is of a stored job whose status is
\* Enable: none begins for a job once its disabling or its deletion has
\* returned.
C26_CancelSparesRunningStopsFuture ==
    [][/\ last'.op \in {"UpdateStatus", "Delete"} => inflight' = inflight
       /\ (last'.op = "Fire" /\ runs' = runs + 1) =>
              /\ last'.id \in DOMAIN jobs
              /\ jobs[last'.id].status = StatusEnable]_vars

\* ---- alerts of executions ---------------------------------------------------
Subscribed(w, id) ==
    \E a \in w.alerts : a.type = w.jobs[id].type /\ a.project = id

C28_ExportImportKeepAll ==
    \A id \in DOMAIN jobs :
        (/\ jobs[id].type = "database" /\ jobs[id].dbName = All
         /\ \A j \in DOMAIN jobs \ {id} : jobs[j].name # jobs[id].name) =>
            LET out  == Export(World, <<id>>)
                w    == Import(DeleteJobRow(World, id), out)
                new  == nextJobID
            IN  /\ Len(out) = 1
                /\ out[1].name = jobs[id].name
                /\ out[1].dbNames = <<>>
                /\ DOMAIN w.jobs = (DOMAIN jobs \ {id}) \cup {new}
                /\ w.jobs[new].name = jobs[id].name
                /\ w.jobs[new].type = "database"
                /\ w.jobs[new].dbName = All

\* the job exported with the All selector was itself imported
C28_Witness ==
    /\ last.op = "Export"
    /\ last.id \in DOMAIN jobs
    /\ jobs[last.id].dbName = All
    /\ jobs[last.id].type = "database"
    /\ jobs[last.id].status = StatusDisable
    /\ last.id = 2
    /\ Len(reply) = 1
    /\ reply[1].dbNames = <<>>
    /\ reply[1].accounts = <<Local, Remote>>

\* ---- LoadRecordLog --------------------------------------------------------------
\* C30: LoadRecordLog returns the empty string when no record has the id,
\* when the record's log file is absent and when reading the file fails, and
\* the file's text otherwise; a call returns no error and changes nothing of
\* the state.
C30_LoadRecordLogEmptyNotError ==
    [][/\ \A id \in 0..(runs + 1), readFails \in BOOLEAN :
              IF \/ ~\E r \in records : r.id = id
                 \/ id \notin logs
                 \/ readFails
              THEN LoadRecordLog(World, id, readFails) = <<>>
              ELSE LoadRecordLog(World, id, readFails) = ReadFile(id)
       /\ last'.op = "LoadRecordLog" =>
              /\ World' = World
              /\ inflight' = inflight
              /\ last'.err = Nil]_vars

\* the record exists, its log file does not
C30_Witness ==
    /\ last.op = "LoadRecordLog"
    /\ \E r \in records : r.id = last.id
    /\ last.id \notin logs
    /\ reply = <<>>

\* ---- cutWebsiteLog ----------------------------------------------------------------
\* C29: a successful Create of a job of type cutWebsiteLog stores the local
\* backup account as the job's download account and as its only source
\* account, whatever the request names; when there is no local backup
\* account Create returns an error and changes nothing: no entry, no job.
C29_CutWebsiteLogBindsLocal ==
    \A req \in AllRequests :
        req.type = CutWebsiteLog =>
            LET r    == Create(World, req, "none")
                none == Create(World, req, "nolocal")
            IN  /\ r.err = Nil =>
                       /\ r.w.jobs[r.id].download = Local
                       /\ r.w.jobs[r.id].accounts = <<Local>>
                       /\ r.w.jobs[r.id].type = CutWebsiteLog
                /\ none.err # Nil
                /\ ~NameUsed(World, req.name) => none.err = ErrLocalDir
                /\ none.w = World

C29_Witness ==
    /\ last.op = "Create" /\ last.err = Nil
    /\ last.id \in DOMAIN jobs
    /\ jobs[last.id].type = CutWebsiteLog
    /\ jobs[last.id].download = Local
    /\ jobs[last.id].accounts = <<Local>>
    /\ jobs[last.id].status = StatusEnable
    /\ OwnedBy(World, last.id) # {}

\* ---- the scheduler table against the stored handle sets ------------------------------
\* the jobs whose status is Enable and whose stored EntryIDs name entry e
HoldersOf(e) ==
    {id \in DOMAIN jobs : jobs[id].status = StatusEnable /\ e.id \in Range(jobs[id].entryIDs)}

\* C31: every entry registered in the scheduler is named by the stored
\* EntryIDs of exactly one existing job whose status is Enable; no mutation,
\* UpdateStatus(id, Enable) on a job that is already Enable included, leaves
\* an entry that no stored set names or that two stored sets name.
C31_EveryEntryHeldByOneEnabledJob ==
    \A e \in entries : Cardinality(HoldersOf(e)) = 1

\* C32: a Create that returns an error (a piece of the spec that does not
\* parse after pieces that do, a failure to insert the row, a failure to
\* create the alert) leaves the scheduler and the job table as they were
\* before the call: no entry added during the call remains, no row is added.
C32_FailedCreateChangesNothing ==
    \A req \in AllRequests, fault \in {"none", "db", "alert"} :
        LET r == Create(World, req, fault)
        IN  r.err # Nil => /\ r.w.entries = entries
                           /\ r.w.jobs = jobs

\* C33: an Update of an Enable job that fails because a piece of the new spec
\* does not parse leaves the job's earlier entries registered, registers no
\* entry of the new spec, and leaves the stored spec, status and EntryIDs of
\* the job as they were.
C33_FailedUpdateKeepsOldHandles ==
    \A id \in DOMAIN jobs, req \in AllRequests :
        LET r == Update(World, id, req, "none")
        IN  (jobs[id].status = StatusEnable /\ r.err = ErrParse) =>
                /\ OwnedBy(World, id) \subseteq r.w.entries
                /\ r.w.entries \subseteq entries
                /\ r.w.jobs[id].spec = jobs[id].spec
                /\ r.w.jobs[id].status = jobs[id].status
                /\ r.w.jobs[id].entryIDs = jobs[id].entryIDs

\* ---- overlapping calls -------------------------------------------------------------
\* callers c and d have both returned from calls on the same job, each call
\* read the job as Enable, and the two calls overlapped
Raced(c, d) ==
    /\ c # d
    /\ calls[c].phase = "returned" /\ calls[d].phase = "returned"
    /\ calls[c].id = calls[d].id
    /\ calls[c].cronModel.status = StatusEnable
    /\ calls[d].cronModel.status = StatusEnable
    /\ d \in calls[c].met
\* the call of caller c is UpdateStatus(id, Enable)
Enabling(c) == calls[c].op = "UpdateStatus" /\ calls[c].arg = StatusEnable

\* C34: when two calls that change the same Enable job (two Updates, or an
\* Update and an UpdateStatus) overlap, then once both have returned the
\* entries registered for the job are exactly those its stored EntryIDs name.
\* UpdateStatus(id, Enable) is left out: on an Enable job it leaves an entry
\* behind without any overlap (C31).
C34_OverlappingCallsAgree ==
    \A c \in Callers, d \in Callers :
        (/\ Raced(c, d)
         /\ "Update" \in {calls[c].op, calls[d].op}
         /\ ~Enabling(c) /\ ~Enabling(d)
         /\ \A x \in Callers : ~Pending(x)
         /\ calls[c].id \in DOMAIN jobs) =>
            {e.id : e \in OwnedBy(World, calls[c].id)} = Range(jobs[calls[c].id].entryIDs)

\* ---- the entries of other jobs ------------------------------------------------------
\* the entries that one of the tables w0, w1 has and the other has not
Touched(w0, w1) == (w0.entries \ w1.entries) \cup (w1.entries \ w0.entries)

\* C35: Create, Update, UpdateStatus, Delete and Import add and remove only
\* entries of the job they are called for: every entry of another job that
\* was registered before the call is registered after it, and no entry of
\* another job is added; also when the job stores no id, or ids whose entries
\* are already removed.
C35_MutationsSpareOtherJobs ==
    /\ \A req \in Requests, fault \in {"none", "db", "alert"} :
           LET r == Create(World, req, fault)
           IN  /\ entries \subseteq r.w.entries
               /\ \A e \in r.w.entries \ entries : e.job \notin DOMAIN jobs
    /\ \A id \in JobIds :
           /\ \A req \in Requests :
                  \A e \in Touched(World, Update(World, id, req, "none").w) : e.job = id
           /\ \A status \in Statuses :
                  \A e \in Touched(World, UpdateStatus(World, id, status, "none").w) :
                      e.job = id
    /\ \A ids \in Batches, f \in AllFlags :
           \A e \in Touched(World, Delete(World, ids, f.data, f.remote, "none", 1).w) :
               e.job \in Range(ids)
    /\ \A items \in ImportBatches : Import(World, items).entries = entries

\* UpdateStatus(1, Disable) has acted on job 1, whose stored id 1 named an
\* entry that a failed Update had removed already: the entry of job 2 and the
\* entry the failed Update left for job 1 are both still registered.
C35_Witness ==
    /\ workload = "strangers"
    /\ last = [op |-> "UpdateStatus", id |-> 1, err |-> Nil]
    /\ DOMAIN jobs = {1, 2}
    /\ jobs[1].status = StatusDisable /\ jobs[1].entryIDs = <<>>
    /\ jobs[2].status = StatusEnable /\ jobs[2].entryIDs = <<2>>
    /\ EntryIdsOf(World) = {2, 3}
    /\ \E e \in entries : e.id = 2 /\ e.job = 2
    /\ \E e \in entries : e.id = 3 /\ e.job = 1

\* ---- Export then Import ------------------------------------------------------------
\* C36: a database job whose selector lists ids is never exported and then
\* imported, where no job has its name, as a job whose selector is All; not
\* even when no database has any of the ids at the time of the Export.
C36_ExportImportNeverWidens ==
    \A id \in DOMAIN jobs :
        (/\ jobs[id].type = "database" /\ jobs[id].dbName # All
         /\ \A j \in DOMAIN jobs \ {id} : jobs[j].name # jobs[id].name) =>
            LET out == Export(World, <<id>>)
                w   == Import(DeleteJobRow(World, id), out)
            IN  /\ nextJobID \in DOMAIN w.jobs
                /\ w.jobs[nextJobID].name = jobs[id].name
                /\ w.jobs[nextJobID].dbName # All

\* ---- HandleOnce ----------------------------------------------------------------------
\* C37: HandleOnce(id) on a stored job, whatever its status, runs the job
\* exactly once (one execution, one execution record of that job) and leaves
\* every job row, the stored EntryIDs and status among them, and the
\* scheduler's table as they were; on an id with no job it returns the
\* not-found error and changes nothing.
C37_HandleOnceRunsOnceChangesNoHandle ==
    \A id \in JobIds, ok \in BOOLEAN :
        LET r == HandleOnce(World, id, ok)
        IN  IF id \in DOMAIN jobs
            THEN /\ r.err = Nil
                 /\ r.w.runs = runs + 1
                 /\ r.w.records \ records =
                        {[id |-> runs + 1, job |-> id,
                          status |-> IF ok THEN Success ELSE Failed]}
                 /\ records \subseteq r.w.records
                 /\ r.w.jobs = jobs
                 /\ r.w.entries = entries
                 /\ r.w.nextEntry = nextEntry
            ELSE /\ r.err = ErrRecordNotFound
                 /\ r.w = World

\* HandleOnce has executed a Disable job that has no entry
C37_Witness ==
    /\ last = [op |-> "HandleOnce", id |-> 1, err |-> Nil]
    /\ 1 \in DOMAIN jobs
    /\ jobs[1].status = StatusDisable /\ jobs[1].entryIDs = <<>>
    /\ OwnedBy(World, 1) = {}
    /\ runs = 1
    /\ \E x \in records : x.job = 1 /\ x.id = 1

====
